---- MODULE Spec2Model ----
(***************************************************************************)
(* Model of the blog admin surface of swt-labs-api: the admin-access gate  *)
(* (src/src/middleware/adminAuth.ts), the blog routes                      *)
(* (src/src/routes/blog.ts) and the blog part of the data-store adapter    *)
(* (src/src/index.ts, lines 54-340); and of the estimate, subscribe and    *)
(* health routes (src/unnamed/part_002, src/src/routes/health.ts) with the *)
(* email-capture write of the adapter. The two groups of routes share no   *)
(* state but the store client: Spec explores the blog routes, ApiSpec the  *)
(* estimate, subscribe and health routes and the answers of the app wiring *)
(* (src/src/index.ts, src/unnamed/part_000), BootSpec the startup          *)
(* (validateConfig in src/src/config/index.ts).                            *)
(*                                                                         *)
(* Encoding of JavaScript values:                                          *)
(*   - a query parameter or body string that is absent (undefined) is the  *)
(*     string NoVal; "" is the empty string; both are falsy;               *)
(*   - an absent session expiry is NoExpiry (-1);                          *)
(*   - titles and slugs are sequences of one-character strings, <<>> is    *)
(*     the absent or empty one (both are falsy);                           *)
(*   - the clock is Date.now() in milliseconds; it is read once per        *)
(*     handler and advances by half a session lifetime per Tick.           *)
(***************************************************************************)
EXTENDS Integers, Sequences, FiniteSets, TLC

\* ------------------------------------------------------------------ bounds
MaxTicks == 3
MaxPosts == 2

\* --------------------------------------------------------------- constants
SessionTtl == 24 * 60 * 60 * 1000
TickMs == SessionTtl \div 2
MaxNow == MaxTicks * TickMs

NoVal == "<undefined>"
NoExpiry == -1
Secret == "s3cret"
WrongKey == "wrong"

\* values of process.env.BLOG_ADMIN_KEY || ''
AdminKeyValues == {"", Secret}
\* values of req.query.key
QueryKeys == {NoVal, "", Secret, WrongKey}

Truthy(s) == s # NoVal /\ s # ""
TruthyNum(n) == n # NoExpiry /\ n # 0

EmptySession == [adminKey |-> NoVal, adminExpires |-> NoExpiry]

VARIABLES
  adminKey,        \* config.blog.adminKey, read-only after startup
  sessionEnabled,  \* whether a session middleware populates req.session
  supabaseReady,   \* whether createSupabaseClient returned a client
  geminiReady,     \* whether createGeminiClient returned a client
  session,         \* the contents of req.session of the one browser session
  now,             \* Date.now()
  posts,           \* the rows of table blog_posts
  nextId,          \* the next id the store assigns
  grantedAt,       \* history: time of the last key grant by checkAdminAccess
  resp,            \* the last blog request and what happened to it
  openaiReady,     \* whether config.openai.apiKey is set
  emails,          \* the number of rows of table user_emails
  pending,         \* the detached email-capture writes still in flight
  reply,           \* the last estimate, subscribe or health request and its answer
  env,             \* which settings process.env holds at startup
  pc,              \* where the process is: validating, validated, listening, exited
  served,          \* the requests the listening server has taken
  warnings,        \* the warnings validateConfig printed
  wiring           \* which of the two versions of the app wiring runs

vars == <<adminKey, sessionEnabled, supabaseReady, geminiReady, session, now,
          posts, nextId, grantedAt, resp, openaiReady, emails, pending, reply,
          env, pc, served, warnings, wiring>>

\* the state of the startup
bootVars == <<env, pc, served, warnings, wiring>>

cfgVars == <<adminKey, sessionEnabled, supabaseReady, geminiReady>>

\* the state of the estimate and health routers
apiVars == <<openaiReady, emails, pending, reply>>

\* the state of the blog router and its gate
blogVars == <<adminKey, sessionEnabled, geminiReady, session, now, posts,
              nextId, grantedAt, resp>>

\* ------------------------------------------------------------ the gates
GateResult(status, code, nextCalls, isAdmin, sess) ==
  [status |-> status, code |-> code, nextCalls |-> nextCalls,
   isAdmin |-> isAdmin, session |-> sess]

\* req.session?.adminKey and req.session?.adminExpires
SessionKey(hasSession, sess) == IF hasSession THEN sess.adminKey ELSE NoVal
SessionExpires(hasSession, sess) == IF hasSession THEN sess.adminExpires ELSE NoExpiry

\* Date.now() < sessionExpires and Date.now() >= sessionExpires; both are
\* false when sessionExpires is undefined
NowBefore_Inclusive(t, expires) == expires # NoExpiry /\ t <= expires
NowBefore_Ignored(t, expires) == expires # NoExpiry
NowBefore(t, expires) == expires # NoExpiry /\ t < expires
NowAtOrAfter_Strict(t, expires) == expires # NoExpiry /\ t > expires
NowAtOrAfter(t, expires) == expires # NoExpiry /\ t >= expires

AdminConfigured_Unchecked(cfgKey) == TRUE
\* !config.blog.adminKey is false
AdminConfigured(cfgKey) == Truthy(cfgKey)

GrantedSession_KeyOnly(queryKey, t) ==
  [adminKey |-> queryKey, adminExpires |-> NoExpiry]
GrantedSession_OneHour(queryKey, t) ==
  [adminKey |-> queryKey, adminExpires |-> t + 60 * 60 * 1000]
\* the session after the grant by query key: the key and now + 24 hours
GrantedSession(queryKey, t) ==
  [adminKey |-> queryKey, adminExpires |-> t + SessionTtl]

InvalidKey_AlsoNext(sess) == GateResult(401, "INVALID_ADMIN_KEY", 1, FALSE, sess)
InvalidKey_ClearsSession(sess) ==
  GateResult(401, "INVALID_ADMIN_KEY", 0, FALSE, EmptySession)
\* the answer to a query key that is not the configured one
InvalidKey(sess) == GateResult(401, "INVALID_ADMIN_KEY", 0, FALSE, sess)

\* no valid authentication found
AccessRequired(sess) == GateResult(401, "ADMIN_ACCESS_REQUIRED", 0, FALSE, sess)

SessionAccepted_Renews(sess) ==
  GateResult(0, "", 1, TRUE, [sess EXCEPT !.adminExpires = MaxNow + SessionTtl + TickMs])
\* the request is let through on its session: nothing is written
SessionAccepted(sess) == GateResult(0, "", 1, TRUE, sess)

checkAdminAccess(cfgKey, hasSession, sess, queryKey, t) ==
  LET sessionKey == SessionKey(hasSession, sess)
      sessionExpires == SessionExpires(hasSession, sess)
  IN
  IF ~AdminConfigured(cfgKey)
  THEN GateResult(500, "ADMIN_NOT_CONFIGURED", 0, FALSE, sess)
  ELSE IF Truthy(queryKey)
  THEN IF queryKey = cfgKey
       THEN IF hasSession
            THEN GateResult(0, "", 1, TRUE, GrantedSession(queryKey, t))
            \* the write to req.session throws and the catch answers
            ELSE GateResult(500, "AUTH_ERROR", 0, FALSE, sess)
       ELSE InvalidKey(sess)
  ELSE IF Truthy(sessionKey) /\ TruthyNum(sessionExpires)
  THEN IF sessionKey = cfgKey /\ NowBefore(t, sessionExpires)
       THEN SessionAccepted(sess)
       ELSE IF NowAtOrAfter(t, sessionExpires)
       \* the expired session is cleared
       THEN AccessRequired(EmptySession)
       ELSE AccessRequired(sess)
  ELSE AccessRequired(sess)

OptionalCaught_Unflagged(sess) == GateResult(0, "", 1, FALSE, sess)
OptionalCaught_Swallowed(sess) == GateResult(0, "", 0, TRUE, sess)
\* the optional gate when its try block threw: req.isAdmin is already set,
\* the catch calls next()
OptionalCaught(sess) == GateResult(0, "", 1, TRUE, sess)

checkAdminOptional(cfgKey, hasSession, sess, queryKey, t) ==
  LET sessionKey == SessionKey(hasSession, sess)
      sessionExpires == SessionExpires(hasSession, sess)
  IN
  IF AdminConfigured(cfgKey)
  THEN IF queryKey = cfgKey
       THEN IF hasSession
            THEN GateResult(0, "", 1, TRUE, GrantedSession(queryKey, t))
            \* the write to req.session throws
            ELSE OptionalCaught(sess)
       ELSE IF sessionKey = cfgKey /\ NowBefore(t, sessionExpires)
       THEN GateResult(0, "", 1, TRUE, sess)
       ELSE GateResult(0, "", 1, FALSE, sess)
  ELSE GateResult(0, "", 1, FALSE, sess)

\* ------------------------------------------------------------ responses
NoData == <<>>

\* req.body with every field left out
NoBody ==
  [title |-> <<>>, slug |-> <<>>, content |-> NoVal, published |-> NoVal,
   status |-> NoVal]

\* the number of calls an adapter operation makes to the hosted store: none
\* when the client is null
StoreCalls(ready) == IF ready THEN 1 ELSE 0

\* the fields of the body of an AI-assist request, none of them present
NoAiBody == [topic |-> FALSE, content |-> FALSE, targetLanguage |-> FALSE]

Response(route, queryKey, gate, handler, status, data, storeCalls, aiCalls) ==
  [route |-> route, key |-> queryKey,
   gateStatus |-> gate.status, code |-> gate.code,
   nextCalls |-> gate.nextCalls, isAdmin |-> gate.isAdmin,
   handler |-> handler, status |-> status, data |-> data,
   storeCalls |-> storeCalls, aiCalls |-> aiCalls,
   limit |-> 0, offset |-> 0, storeError |-> FALSE,
   id |-> 0, slug |-> <<>>, body |-> NoBody,
   required |-> <<>>, hint |-> FALSE, ai |-> NoAiBody,
   produced |-> FALSE, caught |-> FALSE]

AdapterThrows_Uncaught(ready, ok) == ready /\ ~ok
\* whether an adapter operation lets an exception out: each operation
\* returns its sentinel without a client, and does all its work inside a
\* try block whose catch returns the sentinel
AdapterThrows(ready, ok) == FALSE

\* the catch block of a route handler: 500 without data
RouteCatch(response, threw) ==
  IF threw
  THEN [response EXCEPT !.status = 500, !.data = NoData, !.hint = FALSE,
                        !.caught = TRUE]
  ELSE response

\* the required field list a route names in its 400 answer
RequiredOf(route) ==
  CASE route = "admin/create" -> <<"title", "content">>
    [] route = "ai/generate" -> <<"topic">>
    [] route = "ai/translate" -> <<"content", "targetLanguage">>
    [] OTHER -> <<"content">>

\* the answer to a request that fails the validation of its route
BadRequest(route, queryKey, gate) ==
  [Response(route, queryKey, gate, TRUE, 400, NoData, 0, 0)
     EXCEPT !.required = RequiredOf(route)]

\* the response of a list route: the page asked for and whether the store
\* call failed are kept with it
ListResponse(route, queryKey, gate, data, ready, storeOk, limit, offset) ==
  RouteCatch(
    [Response(route, queryKey, gate, TRUE, 200, data, StoreCalls(ready), 0)
       EXCEPT !.limit = limit, !.offset = offset, !.storeError = ready /\ ~storeOk],
    AdapterThrows(ready, storeOk))

\* a response of a handler, with what the handler read from the request:
\* req.params.id, req.params.slug and req.body
Received(response, id, slug, body) ==
  [response EXCEPT !.id = id, !.slug = slug, !.body = body]

\* a response of a handler whose store call was made and failed (an error
\* result or an exception, which the adapter turns into its failure value)
StoreFailed(response, ready, storeOk) ==
  RouteCatch([response EXCEPT !.storeError = ready /\ ~storeOk],
             AdapterThrows(ready, storeOk))

\* the answer of a request the required gate rejected
Rejected(route, queryKey, gate) ==
  Response(route, queryKey, gate, FALSE, gate.status, NoData, 0, 0)

NoGate == GateResult(0, "", 0, FALSE, EmptySession)

\* no request is being answered
Idle == Response("none", NoVal, NoGate, FALSE, 0, NoData, 0, 0)

\* ------------------------------------------------- slug derivation
\* String.prototype.toLowerCase on the characters the model uses
ToLowerCase(c) ==
  CASE c = "A" -> "a"
    [] c = "B" -> "b"
    [] c = "H" -> "h"
    [] OTHER -> c

\* the character class [a-z0-9]
IsSlugChar(c) == c \in {"a", "b", "h", "i", "n", "o", "x", "1"}

LowerAll(s) == [i \in 1..Len(s) |-> ToLowerCase(s[i])]

SkipRun_None(s) == s
RECURSIVE SkipRun(_)
\* the rest of s after its leading run of characters outside [a-z0-9]
SkipRun(s) ==
  IF s = <<>> \/ IsSlugChar(Head(s)) THEN s ELSE SkipRun(Tail(s))

RECURSIVE ReplaceRuns(_)
\* s.replace(/[^a-z0-9]+/g, '-')
ReplaceRuns(s) ==
  IF s = <<>> THEN <<>>
  ELSE IF IsSlugChar(Head(s)) THEN <<Head(s)>> \o ReplaceRuns(Tail(s))
  ELSE <<"-">> \o ReplaceRuns(SkipRun(Tail(s)))

\* title.toLowerCase().replace(/[^a-z0-9]+/g, '-')
DeriveSlug(title) == ReplaceRuns(LowerAll(title))

\* ------------------------------------------------------ request inputs
Titles == {<<"H", "i", " ", "!", "A">>}
SuppliedSlugs == {<<"x">>}
BoolFields == {NoVal, "true", "false"}

\* the published and status fields of a body, as <<published, status>>
PublishFields ==
  {<<NoVal, NoVal>>, <<"true", NoVal>>, <<"false", "published">>,
   <<NoVal, "published">>, <<NoVal, "draft">>}

\* req.body of POST /admin/create
CreateBodies ==
  {b \in [title : Titles \cup {<<>>}, slug : SuppliedSlugs \cup {<<>>},
          content : {"", "c1"}, published : BoolFields,
          status : {NoVal, "published", "draft"}] :
     /\ <<b.published, b.status>> \in PublishFields
     /\ b.status # "draft"
     \* one body for each way of failing the validation
     /\ (b.title = <<>> \/ b.content = "")
          => b.slug = <<>> /\ b.published = NoVal /\ b.status = NoVal
     /\ ~(b.title = <<>> /\ b.content = "")}

\* req.body of PUT /admin/:id; <<>> and NoVal are fields the body leaves out
UpdateBodies ==
  {b \in [title : Titles \cup {<<>>}, content : {NoVal},
          published : BoolFields, status : {NoVal, "published", "draft"}] :
     <<b.published, b.status>> \in PublishFields}

\* req.params.slug of GET /:slug
SlugParams == {<<"h", "i", "-", "a">>, <<"x">>, <<"n", "o">>}

\* req.query.limit and req.query.offset
LimitParams == {NoVal, "0", "1"}
OffsetParams == {NoVal, "1"}

\* req.query.key on the routes that have no gate
PublicQueryKeys == {NoVal, Secret}

NaN == -1

\* parseInt on the strings of NumberParams
ParseInt(s) ==
  CASE s = "0" -> 0
    [] s = "1" -> 1
    [] OTHER -> NaN

\* parseInt(x) || dflt
OrDefault(n, dflt) == IF n = NaN \/ n = 0 THEN dflt ELSE n

\* typeof published === 'boolean' ? published : status === 'published'
PublishedOf(published, status) ==
  IF published = "true" THEN TRUE
  ELSE IF published = "false" THEN FALSE
  ELSE status = "published"

\* --------------------------------------------------- data-store adapter
Min(a, b) == IF a < b THEN a ELSE b

Row(id, title, slug, content, published) ==
  [id |-> id, title |-> title, slug |-> slug, content |-> content,
   published |-> published]

\* .order('created_at', { ascending: false }): rows are created with
\* increasing ids and creation instants, the newest row comes first
RECURSIVE OrderDesc(_)
OrderDesc(rows) ==
  IF rows = {} THEN <<>>
  ELSE LET newest == CHOOSE r \in rows : \A q \in rows : q.id <= r.id
       IN <<newest>> \o OrderDesc(rows \ {newest})

\* query.limit(limit) and query.range(offset, offset + limit - 1) on the
\* ordered rows; limit is never falsy here, the routes default it
Page(ordered, limit, offset) ==
  SubSeq(ordered, offset + 1, Min(offset + limit, Len(ordered)))

\* the rows of the table after createBlogPost inserted one
InsertRow(rows, id, data) ==
  rows \cup {Row(id, data.title, data.slug, data.content, data.published)}

\* the row with that id after .update(updateData).eq('id', id)
UpdatedRow(row, updateData) ==
  [row EXCEPT !.title = IF updateData.title = <<>> THEN @ ELSE updateData.title,
              !.content = IF updateData.content = NoVal THEN @ ELSE updateData.content,
              !.published = updateData.published]

\* getBlogPosts: every row, newest first, one page of them
getBlogPosts(rows, ready, storeOk, limit, offset) ==
  IF ~ready \/ ~storeOk THEN <<>>
  ELSE Page(OrderDesc(rows), limit, offset)

getPublishedPosts_Unfiltered(rows, ready, storeOk, limit, offset) ==
  IF ~ready \/ ~storeOk THEN <<>>
  ELSE Page(OrderDesc(rows), limit, offset)
\* getPublishedPosts: the rows with published = true, newest first, one page
getPublishedPosts(rows, ready, storeOk, limit, offset) ==
  IF ~ready \/ ~storeOk THEN <<>>
  ELSE Page(OrderDesc({r \in rows : r.published}), limit, offset)

getBlogPostBySlug_First(rows, ready, storeOk, slug) ==
  LET found == {r \in rows : r.slug = slug} IN
  IF ~ready \/ ~storeOk \/ found = {} THEN <<>>
  ELSE <<CHOOSE r \in found : \A q \in found : q.id <= r.id>>
\* getBlogPostBySlug: .eq('slug', slug).single() fails unless exactly one row
\* matches; the result is a sequence of no row (null) or one row
getBlogPostBySlug(rows, ready, storeOk, slug) ==
  LET found == {r \in rows : r.slug = slug} IN
  IF ~ready \/ ~storeOk \/ Cardinality(found) # 1 THEN <<>>
  ELSE <<CHOOSE r \in found : TRUE>>

\* ----------------------------- estimate, subscribe and health: values
MaxEmails == 2
MaxPending == 2

\* a field of req.body as JavaScript sees it: its typeof and, for a string
\* or an array of characters, its contents
Field(type, chars) == [type |-> type, chars |-> chars]
Undefined == Field("undefined", <<>>)
Str(chars) == Field("string", chars)

\* !x is false: every value but undefined and the empty string (the numbers
\* and arrays of the model are not falsy)
TruthyField(f) == f.type # "undefined" /\ ~(f.type = "string" /\ f.chars = <<>>)

\* String.prototype.includes for a single character
Includes(chars, c) == \E i \in 1..Len(chars) : chars[i] = c

\* the fields the estimate handler requires
RequiredFields == <<"projectName", "description", "timeline", "projectType">>

RequiredValues == {Undefined, Str(<<>>), Str(<<"v">>)}
EstimateEmails == {Undefined, Str(<<>>), Str(<<"a", "@", "b">>)}
SubscribeEmails ==
  {Undefined, Str(<<>>), Str(<<"a", "b">>), Str(<<"a", "@", "b">>),
   Field("number", <<>>), Field("array", <<"@">>)}

\* req.body of POST /estimate
EstimateBodies ==
  [projectName : RequiredValues, description : RequiredValues,
   timeline : RequiredValues, projectType : RequiredValues,
   email : EstimateEmails]

\* req.body of POST /subscribe: only the email decides what happens
SubscribeBodies ==
  [projectName : {Undefined}, description : {Undefined},
   timeline : {Undefined}, projectType : {Undefined},
   email : SubscribeEmails]

ApiNoBody ==
  [projectName |-> Undefined, description |-> Undefined, timeline |-> Undefined,
   projectType |-> Undefined, email |-> Undefined]

\* error.status of a provider error that carries none
NoStatus == 0

\* what a call to the chat provider did: kind "completion" (content is
\* choices[0].message.content, NoVal for null), "malformed" (a completion
\* without choices), "models" (count listed models, -1 for a list without
\* data), "apiError" (an OpenAI.APIError with its type and status), "error"
\* (any other exception), "none" (no call)
Outcome(kind, type, status, content, count) ==
  [kind |-> kind, type |-> type, status |-> status, content |-> content,
   count |-> count]

NoOutcome == Outcome("none", NoVal, NoStatus, NoVal, 0)

ApiErrors ==
  {Outcome("apiError", type, status, NoVal, 0) :
     type \in {"invalid_request_error", "rate_limit_error",
               "authentication_error", "server_error", NoVal},
     status \in {NoStatus, 400, 401, 404, 429, 503}}

\* new OpenAI({ apiKey: undefined }) either throws in the constructor or
\* the provider rejects the call as unauthenticated
KeylessOutcomes ==
  {Outcome("error", NoVal, NoStatus, NoVal, 0),
   Outcome("apiError", "authentication_error", 401, NoVal, 0)}

\* openai.chat.completions.create
ChatOutcomes(keyed) ==
  IF ~keyed THEN KeylessOutcomes
  ELSE {Outcome("completion", NoVal, NoStatus, c, 0) : c \in {"Szacowany koszt", NoVal}}
       \cup {Outcome("malformed", NoVal, NoStatus, NoVal, 0),
             Outcome("error", NoVal, NoStatus, NoVal, 0)}
       \cup ApiErrors

\* openai.models.list
ListOutcomes ==
  {Outcome("models", NoVal, NoStatus, NoVal, n) : n \in {-1, 0, 2}}
  \cup {Outcome("error", NoVal, NoStatus, NoVal, 0),
        Outcome("apiError", "server_error", 503, NoVal, 0),
        Outcome("apiError", "authentication_error", 401, NoVal, 0)}

\* what the insert of saveEmailToSupabase did
InsertOutcomes == {"saved", "error", "exception"}

Reply(route, status, body, required, outcome, estimation, writes, inserts, insert) ==
  [route |-> route, status |-> status, body |-> body, required |-> required,
   outcome |-> outcome, estimation |-> estimation, writes |-> writes,
   inserts |-> inserts, insert |-> insert, openaiConfigured |-> FALSE,
   timestamp |-> 0, json |-> TRUE]

\* no estimate, subscribe or health request is being answered
NoReply == Reply("none", 0, ApiNoBody, <<>>, NoOutcome, NoVal, 0, 0, "none")

\* ------------------------------------------------------- startup: values
MaxServed == 2

\* the settings validateConfig looks at: whether each variable of
\* process.env is set, and whether NODE_ENV is 'production'
Environments ==
  [openaiKey : BOOLEAN, production : BOOLEAN, supabaseUrl : BOOLEAN,
   supabaseKey : BOOLEAN, geminiKey : BOOLEAN, blogAdminKey : BOOLEAN]

\* the two versions of the app wiring in the repository
Wirings == {"index.ts", "part_000"}

Fatal_StoreAlwaysRequired(e) ==
  ~e.openaiKey \/ ~e.supabaseUrl \/ ~e.supabaseKey
\* validateConfig throws
Fatal(e) ==
  \/ ~e.openaiKey
  \/ e.production /\ (~e.supabaseUrl \/ ~e.supabaseKey)

\* the console.warn calls of a validateConfig that does not throw
Warnings(e) ==
  {w \in {"gemini", "blogAdmin"} :
     \/ w = "gemini" /\ ~e.geminiKey
     \/ w = "blogAdmin" /\ ~e.blogAdminKey}

\* the settings of a server that is running with the given configuration
RunningEnv(openai, supabase, gemini, blogKey) ==
  [openaiKey |-> openai, production |-> FALSE, supabaseUrl |-> supabase,
   supabaseKey |-> supabase, geminiKey |-> gemini, blogAdminKey |-> blogKey # ""]

Init ==
  /\ adminKey \in AdminKeyValues
  /\ sessionEnabled \in BOOLEAN
  /\ supabaseReady \in BOOLEAN
  /\ geminiReady \in BOOLEAN
  /\ session = EmptySession
  /\ now = TickMs
  /\ posts = {}
  /\ nextId = 1
  /\ grantedAt = NoExpiry
  /\ resp = Idle
  /\ openaiReady = TRUE
  /\ emails = 0
  /\ pending = 0
  /\ reply = NoReply
  /\ env = RunningEnv(openaiReady, supabaseReady, geminiReady, adminKey)
  /\ pc = "listening"
  /\ served = 0
  /\ warnings = Warnings(env)
  /\ wiring = "index.ts"

\* time passes between two requests
Tick ==
  /\ resp = Idle
  /\ now + TickMs <= MaxNow
  /\ now' = now + TickMs
  /\ UNCHANGED <<bootVars, apiVars, cfgVars, session, posts, nextId, grantedAt, resp>>

\* a request through a route guarded by checkAdminOptional; the handler
\* behind it is whatever next() reaches
OptionalGate ==
  /\ resp = Idle
  /\ \E queryKey \in QueryKeys :
       LET gate == checkAdminOptional(adminKey, sessionEnabled, session, queryKey, now) IN
       /\ session' = gate.session
       /\ resp' = Response("optional", queryKey, gate, gate.nextCalls > 0, 0, NoData, 0, 0)
       /\ UNCHANGED <<bootVars, apiVars, cfgVars, now, posts, nextId, grantedAt>>

\* the time of the last grant by query key, after a gated request
GrantTime(gate, queryKey) ==
  IF gate.nextCalls = 1 /\ Truthy(queryKey) THEN now ELSE grantedAt

\* what a call to the hosted store or to the generative-text provider can
\* do: succeed or fail; nothing is drawn when no call is made
Outcomes(called) == IF called THEN BOOLEAN ELSE {TRUE}

\* GET /api/blog
PublicList ==
  /\ resp = Idle
  /\ \E queryKey \in PublicQueryKeys, limitParam \in LimitParams,
        offsetParam \in OffsetParams, storeOk \in Outcomes(supabaseReady) :
       LET limit == OrDefault(ParseInt(limitParam), 10)
           offset == OrDefault(ParseInt(offsetParam), 0)
           found == getPublishedPosts(posts, supabaseReady, storeOk, limit, offset)
       IN
       /\ resp' = ListResponse("list", queryKey, NoGate, found, supabaseReady,
                               storeOk, limit, offset)
       /\ UNCHANGED <<bootVars, apiVars, cfgVars, session, now, posts, nextId, grantedAt>>

\* GET /api/blog/:slug
PublicGetBySlug ==
  /\ resp = Idle
  /\ \E queryKey \in PublicQueryKeys, slug \in SlugParams,
        storeOk \in Outcomes(supabaseReady) :
       LET post == getBlogPostBySlug(posts, supabaseReady, storeOk, slug)
           status == IF post = <<>> THEN 404
                     ELSE IF ~post[1].published THEN 404
                     ELSE 200
       IN
       /\ resp' = StoreFailed(
                    Received(Response("slug", queryKey, NoGate, TRUE, status,
                                      IF status = 200 THEN post ELSE NoData,
                                      StoreCalls(supabaseReady), 0),
                             0, slug, NoBody),
                    supabaseReady, storeOk)
       /\ UNCHANGED <<bootVars, apiVars, cfgVars, session, now, posts, nextId, grantedAt>>

\* GET /api/blog/admin/posts
AdminListPosts ==
  /\ resp = Idle
  /\ \E queryKey \in QueryKeys, limitParam \in LimitParams,
        offsetParam \in OffsetParams :
       LET gate == checkAdminAccess(adminKey, sessionEnabled, session, queryKey, now)
           limit == OrDefault(ParseInt(limitParam), 50)
           offset == OrDefault(ParseInt(offsetParam), 0)
       IN
       \E storeOk \in Outcomes(gate.nextCalls = 1 /\ supabaseReady) :
         LET found == getBlogPosts(posts, supabaseReady, storeOk, limit, offset) IN
         /\ session' = gate.session
         /\ grantedAt' = GrantTime(gate, queryKey)
         /\ resp' = IF gate.nextCalls = 0
                    THEN Rejected("admin/posts", queryKey, gate)
                    ELSE ListResponse("admin/posts", queryKey, gate, found,
                                      supabaseReady, storeOk, limit, offset)
         /\ UNCHANGED <<bootVars, apiVars, cfgVars, now, posts, nextId>>

\* POST /api/blog/admin/create
AdminCreate ==
  /\ resp = Idle
  /\ \E queryKey \in QueryKeys, body \in CreateBodies :
       LET gate == checkAdminAccess(adminKey, sessionEnabled, session, queryKey, now)
           valid == body.title # <<>> /\ Truthy(body.content)
           data == [title |-> body.title,
                    slug |-> IF body.slug # <<>> THEN body.slug
                             ELSE DeriveSlug(body.title),
                    content |-> body.content,
                    published |-> PublishedOf(body.published, body.status)]
           created == Row(nextId, data.title, data.slug, data.content, data.published)
       IN
       \E storeOk \in Outcomes(gate.nextCalls = 1 /\ valid /\ supabaseReady) :
         LET inserts == gate.nextCalls = 1 /\ valid /\ supabaseReady /\ storeOk IN
         /\ inserts => nextId <= MaxPosts
         /\ session' = gate.session
         /\ grantedAt' = GrantTime(gate, queryKey)
         /\ posts' = IF inserts THEN InsertRow(posts, nextId, data) ELSE posts
         /\ nextId' = IF inserts THEN nextId + 1 ELSE nextId
         /\ resp' = IF gate.nextCalls = 0
                    THEN Rejected("admin/create", queryKey, gate)
                    ELSE IF ~valid
                    THEN Received(BadRequest("admin/create", queryKey, gate),
                                  0, <<>>, body)
                    ELSE IF ~inserts
                    THEN StoreFailed(
                           Received(Response("admin/create", queryKey, gate, TRUE, 500,
                                             NoData, StoreCalls(supabaseReady), 0),
                                    0, <<>>, body),
                           supabaseReady, storeOk)
                    ELSE Received(Response("admin/create", queryKey, gate, TRUE, 201,
                                           <<created>>, StoreCalls(supabaseReady), 0),
                                  0, <<>>, body)
         /\ UNCHANGED <<bootVars, apiVars, cfgVars, now>>

\* PUT /api/blog/admin/:id
AdminUpdate ==
  /\ resp = Idle
  /\ \E queryKey \in QueryKeys, id \in 1..MaxPosts, body \in UpdateBodies :
       LET gate == checkAdminAccess(adminKey, sessionEnabled, session, queryKey, now)
           updateData == [title |-> body.title, content |-> body.content,
                          published |-> PublishedOf(body.published, body.status)]
           target == {r \in posts : r.id = id}
           updated == {UpdatedRow(r, updateData) : r \in target}
           received == [NoBody EXCEPT !.title = body.title,
                                      !.content = body.content,
                                      !.published = body.published,
                                      !.status = body.status]
       IN
       \E storeOk \in Outcomes(gate.nextCalls = 1 /\ supabaseReady) :
         \* .single() fails when no row has the id
         LET updates == gate.nextCalls = 1 /\ supabaseReady /\ storeOk /\ target # {} IN
         /\ session' = gate.session
         /\ grantedAt' = GrantTime(gate, queryKey)
         /\ posts' = IF updates THEN (posts \ target) \cup updated ELSE posts
         /\ resp' = IF gate.nextCalls = 0
                    THEN Rejected("admin/update", queryKey, gate)
                    ELSE IF ~updates
                    THEN StoreFailed(
                           Received(Response("admin/update", queryKey, gate, TRUE, 404,
                                             NoData, StoreCalls(supabaseReady), 0),
                                    id, <<>>, received),
                           supabaseReady, storeOk)
                    ELSE Received(Response("admin/update", queryKey, gate, TRUE, 200,
                                           OrderDesc(updated), StoreCalls(supabaseReady), 0),
                                  id, <<>>, received)
         /\ UNCHANGED <<bootVars, apiVars, cfgVars, now, nextId>>

AdminDelete_HandlerRunsAnyway ==
  /\ resp = Idle
  /\ \E queryKey \in QueryKeys, id \in 1..MaxPosts, storeOk \in BOOLEAN :
       LET gate == checkAdminAccess(adminKey, sessionEnabled, session, queryKey, now)
           deletes == supabaseReady /\ storeOk
       IN
       /\ session' = gate.session
       /\ grantedAt' = GrantTime(gate, queryKey)
       /\ posts' = IF deletes THEN {r \in posts : r.id # id} ELSE posts
       /\ resp' = IF gate.nextCalls = 0
                  THEN Rejected("admin/delete", queryKey, gate)
                  ELSE Received(Response("admin/delete", queryKey, gate, TRUE,
                                         IF deletes THEN 200 ELSE 404, NoData,
                                         StoreCalls(supabaseReady), 0),
                                id, <<>>, NoBody)
       /\ UNCHANGED <<bootVars, apiVars, cfgVars, now, nextId>>

\* DELETE /api/blog/admin/:id
AdminDelete ==
  /\ resp = Idle
  /\ \E queryKey \in QueryKeys, id \in 1..MaxPosts :
       LET gate == checkAdminAccess(adminKey, sessionEnabled, session, queryKey, now) IN
       \E storeOk \in Outcomes(gate.nextCalls = 1 /\ supabaseReady) :
         \* .delete().eq('id', id) reports no error when no row has the id
         LET deletes == gate.nextCalls = 1 /\ supabaseReady /\ storeOk IN
         /\ session' = gate.session
         /\ grantedAt' = GrantTime(gate, queryKey)
         /\ posts' = IF deletes THEN {r \in posts : r.id # id} ELSE posts
         /\ resp' = IF gate.nextCalls = 0
                    THEN Rejected("admin/delete", queryKey, gate)
                    ELSE StoreFailed(
                           Received(Response("admin/delete", queryKey, gate, TRUE,
                                             IF deletes THEN 200 ELSE 404, NoData,
                                             StoreCalls(supabaseReady), 0),
                                    id, <<>>, NoBody),
                           supabaseReady, storeOk)
         /\ UNCHANGED <<bootVars, apiVars, cfgVars, now, nextId>>

\* the AI-assist routes POST /api/blog/ai/<op>
AiOps == {"generate", "improve", "title", "excerpt", "tags", "translate"}

\* the fields of req.body that are present and not empty
AiBodies ==
  {b \in [topic : BOOLEAN, content : BOOLEAN, targetLanguage : BOOLEAN] :
     /\ b.targetLanguage => b.content
     /\ b.topic => (b.content = b.targetLanguage)}

\* the validation at the head of each AI-assist route
AiValid_IgnoresLanguage(op, body) ==
  IF op = "generate" THEN body.topic ELSE body.content
AiValid(op, body) ==
  CASE op = "generate" -> body.topic
    [] op = "translate" -> body.content /\ body.targetLanguage
    [] OTHER -> body.content

\* the status an AI-assist route answers when the adapter returned its
\* result (produced) or its failure sentinel
AiStatus(op, produced) ==
  IF op = "tags" THEN 200
  ELSE IF produced THEN 200 ELSE 500

\* the answer of an AI-assist route whose validation passed: the adapter
\* returned its result (produced) or its sentinel; a 500 for the sentinel
\* asks to check the Gemini API configuration
AiAnswer(response, op, body, ready, aiOk) ==
  LET produced == ready /\ aiOk
      status == AiStatus(op, produced)
  IN RouteCatch([response EXCEPT !.status = status, !.ai = body,
                                 !.produced = produced, !.hint = status = 500],
                AdapterThrows(ready, aiOk))

AiRoute ==
  /\ resp = Idle
  /\ \E queryKey \in QueryKeys, op \in AiOps, body \in AiBodies :
       LET gate == checkAdminAccess(adminKey, sessionEnabled, session, queryKey, now)
           route == "ai/" \o op
           calls == gate.nextCalls = 1 /\ AiValid(op, body) /\ geminiReady
       IN
       \E aiOk \in Outcomes(calls) :
         /\ session' = gate.session
         /\ grantedAt' = GrantTime(gate, queryKey)
         /\ resp' = IF gate.nextCalls = 0
                    THEN Rejected(route, queryKey, gate)
                    ELSE IF ~AiValid(op, body)
                    THEN [BadRequest(route, queryKey, gate) EXCEPT !.ai = body]
                    ELSE AiAnswer(Response(route, queryKey, gate, TRUE, 0, NoData, 0,
                                           IF geminiReady THEN 1 ELSE 0),
                                  op, body, geminiReady, aiOk)
         /\ UNCHANGED <<bootVars, apiVars, cfgVars, now, posts, nextId>>

\* the response has left and the request is over; the server handles the
\* next one
Complete ==
  /\ resp # Idle
  /\ resp' = Idle
  /\ UNCHANGED <<bootVars, apiVars, cfgVars, session, now, posts, nextId, grantedAt>>

Next ==
  \/ Tick
  \/ Complete
  \/ OptionalGate
  \/ PublicList
  \/ PublicGetBySlug
  \/ AdminListPosts
  \/ AdminCreate
  \/ AdminUpdate
  \/ AdminDelete
  \/ AiRoute

Spec == Init /\ [][Next]_vars

\* ---------------------------- estimate, subscribe and health: the routes
\* The estimate and health routers share no state with the blog router but
\* the store client; they are explored on their own, from ApiInit.
ApiInit ==
  /\ adminKey = ""
  /\ sessionEnabled = FALSE
  /\ supabaseReady \in BOOLEAN
  /\ geminiReady = FALSE
  /\ session = EmptySession
  /\ now = TickMs
  /\ posts = {}
  /\ nextId = 1
  /\ grantedAt = NoExpiry
  /\ resp = Idle
  \* validateConfig let the server start: the chat-provider key is set
  /\ openaiReady = TRUE
  /\ emails = 0
  /\ pending = 0
  /\ reply = NoReply
  /\ env = RunningEnv(openaiReady, supabaseReady, geminiReady, adminKey)
  /\ pc = "listening"
  /\ served = 0
  /\ warnings = Warnings(env)
  /\ wiring \in Wirings

EstimateValid_IgnoresTimeline(body) ==
  /\ TruthyField(body.projectName)
  /\ TruthyField(body.description)
  /\ TruthyField(body.projectType)
\* !projectName || !description || !timeline || !projectType is false
EstimateValid(body) ==
  /\ TruthyField(body.projectName)
  /\ TruthyField(body.description)
  /\ TruthyField(body.timeline)
  /\ TruthyField(body.projectType)

ProviderErrorStatus_OwnStatus(outcome) ==
  IF outcome.kind = "apiError"
  THEN IF outcome.status # NoStatus THEN outcome.status ELSE 500
  ELSE 500
\* the catch block of the estimate handler
ProviderErrorStatus(outcome) ==
  IF outcome.kind = "apiError"
  THEN CASE outcome.type = "invalid_request_error" -> 400
         [] outcome.type = "rate_limit_error" -> 429
         [] outcome.type = "authentication_error" -> 401
         [] OTHER -> IF outcome.status # NoStatus THEN outcome.status ELSE 500
  ELSE 500

StartsEmailWrite_Always(email) == TRUE
\* email && !res.headersSent: nothing was sent before this point
StartsEmailWrite(email) == TruthyField(email)

\* POST /api/estimate
Estimate ==
  /\ reply = NoReply
  /\ \E body \in EstimateBodies :
       IF ~EstimateValid(body)
       THEN /\ reply' = Reply("estimate", 400, body, RequiredFields, NoOutcome,
                              NoVal, 0, 0, "none")
            /\ UNCHANGED <<emails, pending>>
       ELSE \E outcome \in ChatOutcomes(openaiReady) :
              IF outcome.kind = "completion"
              THEN LET starts == StartsEmailWrite(body.email)
                       \* saveEmailToSupabase returns false at once without a client
                       inserts == IF starts /\ supabaseReady THEN 1 ELSE 0
                   IN /\ pending + inserts <= MaxPending
                      /\ pending' = pending + inserts
                      \* the write is not awaited: res.json follows at once
                      /\ reply' = Reply("estimate", 200, body, <<>>, outcome,
                                        outcome.content, IF starts THEN 1 ELSE 0,
                                        inserts,
                                        IF inserts = 1 THEN "pending" ELSE "none")
                      /\ UNCHANGED emails
              ELSE /\ reply' = Reply("estimate", ProviderErrorStatus(outcome), body,
                                     <<>>, outcome, NoVal, 0, 0, "none")
                   /\ UNCHANGED <<emails, pending>>
  /\ UNCHANGED <<bootVars, blogVars, supabaseReady, openaiReady>>

EmailWriteSettles_FailsResponse ==
  /\ pending > 0
  /\ \E outcome \in InsertOutcomes :
       /\ outcome = "saved" => emails < MaxEmails
       /\ emails' = IF outcome = "saved" THEN emails + 1 ELSE emails
       /\ pending' = pending - 1
       /\ reply' = IF reply.route = "estimate" /\ outcome # "saved"
                   THEN [reply EXCEPT !.status = 500]
                   ELSE reply
  /\ UNCHANGED <<bootVars, blogVars, supabaseReady, openaiReady>>
\* a detached insert of saveEmailToSupabase comes back: the row is stored, or
\* the store reports an error, or the call throws; each is only logged
EmailWriteSettles ==
  /\ pending > 0
  /\ \E outcome \in InsertOutcomes :
       /\ outcome = "saved" => emails < MaxEmails
       /\ emails' = IF outcome = "saved" THEN emails + 1 ELSE emails
       /\ pending' = pending - 1
  /\ UNCHANGED <<bootVars, blogVars, supabaseReady, openaiReady, reply>>

ValidEmail_Untyped(email) == TruthyField(email) /\ Includes(email.chars, "@")
\* !email || typeof email !== 'string' || !email.includes('@') is false
ValidEmail(email) ==
  TruthyField(email) /\ email.type = "string" /\ Includes(email.chars, "@")

\* POST /api/subscribe
Subscribe ==
  /\ reply = NoReply
  /\ \E body \in SubscribeBodies :
       IF ~ValidEmail(body.email)
       THEN /\ reply' = Reply("subscribe", 400, body, <<"email">>, NoOutcome,
                              NoVal, 0, 0, "none")
            /\ UNCHANGED emails
       ELSE \E outcome \in (IF supabaseReady THEN InsertOutcomes ELSE {"none"}) :
              /\ outcome = "saved" => emails < MaxEmails
              /\ emails' = IF outcome = "saved" THEN emails + 1 ELSE emails
              /\ reply' = Reply("subscribe", IF outcome = "saved" THEN 200 ELSE 500,
                                body, <<>>, NoOutcome, NoVal, 1,
                                StoreCalls(supabaseReady), outcome)
  /\ UNCHANGED <<bootVars, blogVars, supabaseReady, openaiReady, pending>>

\* the status of the health check after openai.models.list: an empty list
\* throws a plain Error, which the catch answers like any non-provider error
HealthStatus(outcome) ==
  IF outcome.kind = "models" /\ outcome.count > 0 THEN 200
  ELSE IF outcome.kind = "apiError" THEN 503
  ELSE 500

\* GET /api/health
Health ==
  /\ reply = NoReply
  /\ IF ~openaiReady
     THEN reply' = Reply("health", 503, ApiNoBody, <<>>, NoOutcome, NoVal, 0, 0, "none")
     ELSE \E outcome \in ListOutcomes :
            LET status == HealthStatus(outcome) IN
            reply' = [Reply("health", status, ApiNoBody, <<>>, outcome, NoVal, 0, 0,
                            "none")
                        EXCEPT !.openaiConfigured = status = 200,
                               !.timestamp = IF status = 200 THEN now ELSE 0]
  /\ UNCHANGED <<bootVars, blogVars, supabaseReady, openaiReady, emails, pending>>

\* the response has left; detached writes may still be in flight
ApiComplete ==
  /\ reply # NoReply
  /\ reply' = NoReply
  /\ UNCHANGED <<bootVars, blogVars, supabaseReady, openaiReady, emails, pending>>

\* the answer of Express's default handler, which ends every request that
\* no route and no error middleware answered: the status and an HTML page
FinalHandler(route, status) ==
  [Reply(route, status, ApiNoBody, <<>>, NoOutcome, NoVal, 0, 0, "none")
     EXCEPT !.json = FALSE]

\* whether the error-handling middleware of the wiring receives an error
\* raised at the given place: Express hands an error to the error middleware
\* registered after that place. index.ts registers none; part_000 registers
\* one after the body parsers and before the routes.
ErrorMiddlewareReached(w, from) == w = "part_000" /\ from = "body"

\* the answer to a request during which an error with the given status was
\* raised: the error middleware answers 500 with a JSON body
ErrorAnswer(w, route, from, errStatus) ==
  IF ErrorMiddlewareReached(w, from)
  THEN Reply(route, 500, ApiNoBody, <<>>, NoOutcome, NoVal, 0, 0, "none")
  ELSE FinalHandler(route, errStatus)

\* a request for a path and method that no route matches
Unmatched ==
  /\ reply = NoReply
  /\ reply' = FinalHandler("unmatched", 404)
  /\ UNCHANGED <<bootVars, blogVars, supabaseReady, openaiReady, emails, pending>>

\* a request whose route handler lets an error out (passes it to next)
EscapedError ==
  /\ reply = NoReply
  /\ reply' = ErrorAnswer(wiring, "escaped", "route", 500)
  /\ UNCHANGED <<bootVars, blogVars, supabaseReady, openaiReady, emails, pending>>

\* a request with a body that express.json cannot parse: the parser raises
\* an error with status 400
MalformedBody ==
  /\ reply = NoReply
  /\ reply' = ErrorAnswer(wiring, "malformed", "body", 400)
  /\ UNCHANGED <<bootVars, blogVars, supabaseReady, openaiReady, emails, pending>>

ApiNext ==
  \/ Estimate
  \/ EmailWriteSettles
  \/ Subscribe
  \/ Health
  \/ Unmatched
  \/ EscapedError
  \/ MalformedBody
  \/ ApiComplete

ApiSpec == ApiInit /\ [][ApiNext]_vars

\* ------------------------------------------------------------- the startup
\* The process from its start to the listening server, for every setting of
\* the environment.
BootInit ==
  /\ env \in Environments
  /\ pc = "validating"
  /\ served = 0
  /\ warnings = {}
  /\ wiring \in Wirings
  /\ adminKey = IF env.blogAdminKey THEN Secret ELSE ""
  /\ sessionEnabled = FALSE
  \* createSupabaseClient and createGeminiClient
  /\ supabaseReady = (env.supabaseUrl /\ env.supabaseKey)
  /\ geminiReady = env.geminiKey
  /\ openaiReady = env.openaiKey
  /\ session = EmptySession
  /\ now = TickMs
  /\ posts = {}
  /\ nextId = 1
  /\ grantedAt = NoExpiry
  /\ resp = Idle
  /\ emails = 0
  /\ pending = 0
  /\ reply = NoReply

\* try { validateConfig() } catch { process.exit(1) }
ValidateConfig ==
  /\ pc = "validating"
  /\ pc' = IF Fatal(env) THEN "exited" ELSE "validated"
  /\ warnings' = IF Fatal(env) THEN {} ELSE Warnings(env)
  /\ UNCHANGED <<blogVars, apiVars, supabaseReady, env, served, wiring>>

\* app.listen(config.port)
Listen ==
  /\ pc = "validated"
  /\ pc' = "listening"
  /\ UNCHANGED <<blogVars, apiVars, supabaseReady, env, served, warnings, wiring>>

\* the listening server takes a request
ServeRequest ==
  /\ pc = "listening"
  /\ served < MaxServed
  /\ served' = served + 1
  /\ UNCHANGED <<blogVars, apiVars, supabaseReady, env, pc, warnings, wiring>>

BootNext ==
  \/ ValidateConfig
  \/ Listen
  \/ ServeRequest

BootSpec == BootInit /\ [][BootNext]_vars
\* ------------------------------------------------------------- the claims
\* the routes behind checkAdminAccess
GatedRoutes ==
  {"admin/posts", "admin/create", "admin/update", "admin/delete",
   "ai/generate", "ai/improve", "ai/title", "ai/excerpt", "ai/tags",
   "ai/translate"}

\* a request arrives at a gated route and is answered in this step
GatedRequest == resp = Idle /\ resp'.route \in GatedRoutes

\* the request answered in this step carries no query key (none, or an
\* empty one, which the gate cannot tell from none)
Keyless == resp'.key \in {NoVal, ""}

\* session contents of any kind, also ones the gates never write
AnySessions ==
  [adminKey : {NoVal, Secret, WrongKey},
   adminExpires : {NoExpiry, TickMs, MaxNow + SessionTtl}]

\* C1: with an admin secret configured, a request reaches the handler of a
\* gated route only if its query key equals the secret, or it carries no
\* query key and the session holds the secret and the time is strictly
\* before the session expiry; every other request is answered 401 and the
\* handler is not invoked.
C1_HandlerOnlyByKeyOrLiveSession ==
  [][(GatedRequest /\ adminKey # "") =>
       LET byKey == resp'.key = adminKey
           bySession == /\ Keyless
                        /\ sessionEnabled
                        /\ session.adminKey = adminKey
                        /\ session.adminExpires # NoExpiry
                        /\ now < session.adminExpires
       IN /\ resp'.handler => (byKey \/ bySession)
          /\ ~(byKey \/ bySession) => (resp'.status = 401 /\ ~resp'.handler)]_vars

C1_Witness ==
  /\ resp.route \in GatedRoutes
  /\ resp.handler
  /\ resp.key = NoVal
  /\ session.adminKey = adminKey
  /\ now < session.adminExpires

\* C2: when a request with the correct query key is accepted at time t, the
\* session holds the secret and the expiry t + 24h after it, and every later
\* request without a key that arrives strictly before t + 24h passes the
\* gate and reaches its handler.
C2_GrantLastsADay ==
  [][GatedRequest =>
       /\ (~Keyless /\ resp'.handler) =>
            session' = [adminKey |-> adminKey, adminExpires |-> now + 86400000]
       /\ (Keyless /\ grantedAt # NoExpiry /\ now < grantedAt + 86400000) =>
            (resp'.handler /\ resp'.gateStatus = 0)]_vars

C2_Witness ==
  /\ resp.route \in GatedRoutes
  /\ resp.handler
  /\ resp.key \in {NoVal, ""}
  /\ grantedAt # NoExpiry
  /\ grantedAt < now
  /\ now < grantedAt + 86400000

\* C3: a request without a key that arrives at or after the stored expiry is
\* answered 401 ADMIN_ACCESS_REQUIRED and leaves the session without secret
\* and expiry; a session without them rejects every request without a key,
\* and only a request with the correct key fills it again.
C3_ExpiredSessionRejectedAndCleared ==
  [][/\ (GatedRequest /\ Keyless /\ session.adminExpires # NoExpiry
           /\ now >= session.adminExpires) =>
          /\ resp'.status = 401
          /\ resp'.code = "ADMIN_ACCESS_REQUIRED"
          /\ ~resp'.handler
          /\ session' = EmptySession
     /\ (GatedRequest /\ Keyless /\ session = EmptySession /\ adminKey # "") =>
          /\ resp'.status = 401
          /\ resp'.code = "ADMIN_ACCESS_REQUIRED"
          /\ ~resp'.handler
          /\ session' = EmptySession
     /\ (session = EmptySession /\ session' # EmptySession) =>
          resp'.key = adminKey]_vars

C3_Witness ==
  /\ resp.route \in GatedRoutes
  /\ resp.key \in {NoVal, ""}
  /\ resp.code = "ADMIN_ACCESS_REQUIRED"
  /\ session = EmptySession
  /\ grantedAt # NoExpiry
  /\ now >= grantedAt + 86400000

\* C6: without a configured admin secret the required gate answers every
\* request 500 ADMIN_NOT_CONFIGURED, whatever the query key and the session,
\* does not invoke the handler and does not change the session.
C6_UnconfiguredAlways500 ==
  [][(GatedRequest /\ adminKey = "") =>
       /\ resp'.status = 500
       /\ resp'.code = "ADMIN_NOT_CONFIGURED"
       /\ ~resp'.handler
       /\ session' = session
       /\ \A hasSession \in BOOLEAN, sess \in AnySessions, key \in QueryKeys :
            LET gate == checkAdminAccess(adminKey, hasSession, sess, key, now) IN
            /\ gate.status = 500
            /\ gate.code = "ADMIN_NOT_CONFIGURED"
            /\ gate.nextCalls = 0
            /\ gate.session = sess]_vars

C6_Witness ==
  /\ adminKey = ""
  /\ resp.route \in GatedRoutes
  /\ resp.key = Secret
  /\ resp.code = "ADMIN_NOT_CONFIGURED"

\* C7: with a secret configured, a request whose query key is present and
\* differs from the secret is answered 401 INVALID_ADMIN_KEY, the handler is
\* not invoked and the session is unchanged, also when the session holds a
\* valid, unexpired secret.
C7_WrongKeyRejected ==
  [][(GatedRequest /\ adminKey # "" /\ ~Keyless /\ resp'.key # adminKey) =>
       /\ resp'.status = 401
       /\ resp'.code = "INVALID_ADMIN_KEY"
       /\ ~resp'.handler
       /\ session' = session]_vars

C7_Witness ==
  /\ resp.route \in GatedRoutes
  /\ resp.code = "INVALID_ADMIN_KEY"
  /\ session.adminKey = adminKey
  /\ now < session.adminExpires

\* C8: the optional gate sends no response and calls the next handler
\* exactly once for every request, also when its check throws.
C8_OptionalAlwaysProceeds ==
  resp.route = "optional" =>
    /\ resp.status = 0
    /\ resp.gateStatus = 0
    /\ resp.nextCalls = 1

C8_Witness ==
  /\ resp.route = "optional"
  /\ ~sessionEnabled
  /\ adminKey # ""
  /\ resp.key = adminKey
  /\ resp.nextCalls = 1
C5_StoreChangesOnlyBehindGate ==
  [][/\ posts' # posts =>
          /\ resp = Idle
          /\ resp'.route \in {"admin/create", "admin/update", "admin/delete"}
          /\ resp'.handler
          /\ checkAdminAccess(adminKey, sessionEnabled, session, resp'.key, now).nextCalls = 1
     /\ (GatedRequest
           /\ checkAdminAccess(adminKey, sessionEnabled, session, resp'.key, now).nextCalls = 0) =>
          /\ resp'.status \in {401, 500}
          /\ ~resp'.handler
          /\ resp'.storeCalls = 0
          /\ resp'.aiCalls = 0
          /\ posts' = posts
          /\ nextId' = nextId]_vars

C5_Witness ==
  /\ resp.route = "admin/delete"
  /\ resp.status = 401
  /\ resp.storeCalls = 0
  /\ posts # {}

\* C9: for every configured secret, query key, session and time, the
\* optional gate sets the authorization flag exactly when the required gate
\* lets the same request through (stated for requests that carry a session).
C9_OptionalAgreesWithRequired ==
  sessionEnabled =>
    \A key \in QueryKeys :
      checkAdminOptional(adminKey, sessionEnabled, session, key, now).isAdmin
        = (checkAdminAccess(adminKey, sessionEnabled, session, key, now).nextCalls = 1)

\* C10 as claimed: after any gate invocation, required or optional, with or
\* without a query key, on a session whose expiry is at or before the current
\* time, the session no longer holds the expired secret and expiry.
C10_ExpiredClearedByAnyGate ==
  [][(resp = Idle /\ resp'.route \in GatedRoutes \cup {"optional"}
        /\ session.adminExpires # NoExpiry /\ now >= session.adminExpires) =>
       session' # session]_vars

\* C10 amended: on a session whose expiry is at or before the current time,
\* the required gate invoked without a query key removes secret and expiry
\* and rejects; either gate invoked with the correct key replaces them by
\* the key and a fresh expiry; the required gate invoked with a wrong key
\* and the optional gate invoked without the correct key leave the expired
\* values in the session and do not authorize the request.
C10_ExpiredClearedByKeylessRequiredGate ==
  [][(resp = Idle /\ resp'.route \in GatedRoutes \cup {"optional"}
        /\ session.adminExpires # NoExpiry /\ now >= session.adminExpires) =>
       IF resp'.key = adminKey
       THEN session' = [adminKey |-> adminKey, adminExpires |-> now + 86400000]
       ELSE IF resp'.route \in GatedRoutes /\ Keyless
       THEN session' = EmptySession /\ ~resp'.handler /\ ~resp'.isAdmin
       ELSE /\ session' = session
            /\ ~resp'.isAdmin
            /\ resp'.route \in GatedRoutes => ~resp'.handler]_vars

C10_Witness ==
  /\ resp.route = "optional"
  /\ resp.key = NoVal
  /\ ~resp.isAdmin
  /\ session.adminExpires # NoExpiry
  /\ now >= session.adminExpires

\* a public fetch by slug is answered in this step and the store answered it
SlugRequest ==
  resp = Idle /\ resp'.route = "slug" /\ supabaseReady /\ ~resp'.storeError

MaxTitleLen == 3
TitleAlphabet == {"A", "b", "1", " ", "-"}
TitleStrings == UNION {[1..n -> TitleAlphabet] : n \in 0..MaxTitleLen}

RECURSIVE HyphenateRuns(_)
\* s with every maximal run of characters outside [a-z0-9] replaced by one
\* hyphen, read from the end of s: a character of the class stays, a
\* character outside it becomes a hyphen where it starts a run and
\* disappears elsewhere
HyphenateRuns(s) ==
  IF s = <<>> THEN <<>>
  ELSE LET n == Len(s)
           front == HyphenateRuns(SubSeq(s, 1, n - 1))
       IN IF IsSlugChar(s[n]) THEN front \o <<s[n]>>
          ELSE IF n = 1 \/ IsSlugChar(s[n - 1]) THEN front \o <<"-">>
          ELSE front

\* C12: when a post is created without a slug, the stored slug is the title
\* lowercased with every maximal run of characters outside [a-z0-9] replaced
\* by exactly one hyphen; a supplied non-empty slug is stored unchanged. The
\* derivation is compared on every title of TitleStrings at the first
\* creation.
C12_SlugDerivedOrSupplied ==
  [][(resp = Idle /\ resp'.route = "admin/create" /\ resp'.status = 201) =>
       LET row == resp'.data[1]
           body == resp'.body
       IN /\ row \in posts'
          /\ row \notin posts
          /\ row.slug = IF body.slug # <<>> THEN body.slug
                        ELSE HyphenateRuns(LowerAll(body.title))
          /\ posts = {} =>
               \A t \in TitleStrings : DeriveSlug(t) = HyphenateRuns(LowerAll(t))]_vars

C12_Witness ==
  /\ resp.route = "admin/create"
  /\ resp.status = 201
  /\ resp.body.slug = <<>>
  /\ resp.body.title = <<"H", "i", " ", "!", "A">>
  /\ \E p \in posts : p.slug = <<"h", "i", "-", "a">>

\* C13: an authorized DELETE /admin/:id is answered 404 when no row has the
\* id (as on the second of two deletes of the same id), and 200 with the row
\* removed when the row exists (stated for a store that answers).
C13_DeleteAbsentIs404 ==
  [][(resp = Idle /\ resp'.route = "admin/delete" /\ resp'.handler
        /\ supabaseReady /\ ~resp'.storeError) =>
       IF \E p \in posts : p.id = resp'.id
       THEN /\ resp'.status = 200
            /\ posts' = {p \in posts : p.id # resp'.id}
       ELSE resp'.status = 404]_vars

\* C14: a successful PUT /admin/:id changes only the fields the body
\* supplies, status being normalized into published; every other field of
\* the post, published included when the body supplies neither published nor
\* status, keeps its value, and so does every other post.
C14_UpdateKeepsUnsuppliedFields ==
  [][(resp = Idle /\ resp'.route = "admin/update" /\ resp'.status = 200) =>
       LET body == resp'.body IN
       /\ \A p \in posts :
            p.id = resp'.id =>
              \E q \in posts' :
                /\ q.id = p.id
                /\ q.slug = p.slug
                /\ q.title = IF body.title # <<>> THEN body.title ELSE p.title
                /\ q.content = IF body.content # NoVal THEN body.content ELSE p.content
                /\ q.published = IF body.published = NoVal /\ body.status = NoVal
                                 THEN p.published
                                 ELSE PublishedOf(body.published, body.status)
       /\ \A r \in posts : r.id # resp'.id => r \in posts']_vars

\* the required fields that are missing or empty in an estimation request
Missing(body) ==
  {RequiredFields[i] : i \in {j \in DOMAIN RequiredFields :
                                ~TruthyField(body[RequiredFields[j]])}}

\* C15 as claimed: an estimation request in which at least one required
\* field is missing or empty is answered 400, and the required list of the
\* answer names exactly the fields missing from that request.
C15_RequiredNamesExactlyMissing ==
  (reply.route = "estimate" /\ Missing(reply.body) # {}) =>
    /\ reply.status = 400
    /\ {reply.required[i] : i \in DOMAIN reply.required} = Missing(reply.body)

\* C15 amended: such a request is answered 400 before any provider or store
\* call, and the required list of the answer is always the four names
\* projectName, description, timeline, projectType, whichever of them the
\* request is missing.
C15_RequiredNamesAllFour ==
  (reply.route = "estimate" /\ Missing(reply.body) # {}) =>
    /\ reply.status = 400
    /\ reply.required = <<"projectName", "description", "timeline", "projectType">>
    /\ reply.outcome.kind = "none"
    /\ reply.writes = 0

C15_Witness ==
  /\ reply.route = "estimate"
  /\ reply.status = 400
  /\ Missing(reply.body) = {"timeline"}
  /\ Len(reply.required) = 4

\* C16: once the chat provider returned an estimation the client gets 200
\* with that estimation in the step that starts the email-capture write,
\* which is then still in flight; however the write ends afterwards (row
\* stored, store error, exception), the answer is not changed.
C16_EstimateAnsweredBeforeWrite ==
  [][/\ (reply = NoReply /\ reply'.route = "estimate"
           /\ reply'.outcome.kind = "completion") =>
          /\ reply'.status = 200
          /\ reply'.estimation = reply'.outcome.content
          /\ reply'.insert \in {"pending", "none"}
          /\ pending' = pending + reply'.inserts
          /\ emails' = emails
     /\ pending' < pending => reply' = reply]_vars

C16_Witness ==
  /\ reply.route = "estimate"
  /\ reply.status = 200
  /\ reply.estimation = "Szacowany koszt"
  /\ reply.inserts = 1
  /\ pending = 0
  /\ emails = 0

\* C17: an estimation request starts at most one email-capture write, only
\* after the chat provider returned a completion and only if the request
\* supplied an email; a request answered 400 by the validation, or whose
\* provider call failed, starts no write.
C17_WriteOnlyAfterEstimation ==
  [][(reply = NoReply /\ reply'.route = "estimate") =>
       /\ reply'.writes \in {0, 1}
       /\ reply'.inserts \in {0, reply'.writes}
       /\ pending' = pending + reply'.inserts
       /\ emails' = emails
       /\ reply'.writes = 1 =>
            /\ reply'.outcome.kind = "completion"
            /\ reply'.status = 200
            /\ TruthyField(reply'.body.email)
       /\ reply'.outcome.kind # "completion" =>
            /\ reply'.writes = 0
            /\ pending' = pending]_vars

C17_Witness ==
  /\ reply.route = "estimate"
  /\ reply.outcome.kind = "apiError"
  /\ TruthyField(reply.body.email)
  /\ supabaseReady
  /\ reply.writes = 0
  /\ pending = 0

\* C18: when the chat provider call fails with a provider API error the
\* status is 400 for a bad-request error, 429 for a rate-limit error, 401
\* for an authentication error and otherwise the status of the error, 500
\* if it has none; any other failure is answered 500.
C18_ProviderErrorMapping ==
  reply.route = "estimate" =>
    LET o == reply.outcome
        named == {"invalid_request_error", "rate_limit_error", "authentication_error"}
    IN /\ (o.kind = "apiError" /\ o.type = "invalid_request_error") => reply.status = 400
       /\ (o.kind = "apiError" /\ o.type = "rate_limit_error") => reply.status = 429
       /\ (o.kind = "apiError" /\ o.type = "authentication_error") => reply.status = 401
       /\ (o.kind = "apiError" /\ o.type \notin named) =>
            reply.status = IF o.status = NoStatus THEN 500 ELSE o.status
       /\ o.kind \in {"error", "malformed"} => reply.status = 500

C18_Witness ==
  /\ reply.route = "estimate"
  /\ reply.outcome.kind = "apiError"
  /\ reply.outcome.type = "invalid_request_error"
  /\ reply.outcome.status = 404
  /\ reply.status = 400

\* C19: POST /subscribe answers 400 without a call to the store when the
\* email is missing, is not a string or has no "@"; otherwise it calls the
\* insert operation of the adapter once, answers 200 exactly when the row
\* was stored and 500 in every other case (store error, exception, no store
\* client, in which case the adapter makes no request).
C19_SubscribeStatus ==
  [][(reply = NoReply /\ reply'.route = "subscribe") =>
       LET e == reply'.body.email
           bad == e.type # "string" \/ e.chars = <<>> \/ ~Includes(e.chars, "@")
       IN IF bad
          THEN /\ reply'.status = 400
               /\ reply'.writes = 0
               /\ reply'.inserts = 0
               /\ emails' = emails
          ELSE /\ reply'.writes = 1
               /\ reply'.inserts = IF supabaseReady THEN 1 ELSE 0
               /\ reply'.status \in {200, 500}
               /\ reply'.status = 200 <=> reply'.insert = "saved"
               /\ emails' = IF reply'.status = 200 THEN emails + 1 ELSE emails
               /\ ~supabaseReady => reply'.status = 500]_vars

C19_Witness ==
  /\ reply.route = "subscribe"
  /\ reply.body.email = Str(<<"a", "@", "b">>)
  /\ reply.status = 500
  /\ reply.insert = "exception"
  /\ emails = 1

\* C20: GET /health answers 503 if the provider key is missing or the
\* model listing returns no models, and 200 with openaiConfigured true and a
\* timestamp when the listing returns models.
C20_HealthUnavailableOrOk ==
  reply.route = "health" =>
    LET o == reply.outcome IN
    /\ (~openaiReady \/ (o.kind = "models" /\ o.count <= 0)) => reply.status = 503
    /\ (openaiReady /\ o.kind = "models" /\ o.count > 0) =>
         /\ reply.status = 200
         /\ reply.openaiConfigured
         /\ reply.timestamp = now

\* C21: the validation runs before the server listens: with the chat-API key
\* absent, or in production mode with the store URL or the store key absent,
\* the process exits and never serves a request; an absent generative-text
\* key or admin secret only produces a warning, and the server starts.
C21_StartupValidation ==
  LET fatal == \/ ~env.openaiKey
               \/ env.production /\ ~env.supabaseUrl
               \/ env.production /\ ~env.supabaseKey
  IN /\ fatal => (pc \in {"validating", "exited"} /\ served = 0)
     /\ pc = "exited" => fatal
     /\ served > 0 => pc = "listening"
     /\ pc \in {"validated", "listening"} =>
          /\ "gemini" \in warnings <=> ~env.geminiKey
          /\ "blogAdmin" \in warnings <=> ~env.blogAdminKey

C21_Witness ==
  /\ pc = "listening"
  /\ served > 0
  /\ ~env.production
  /\ ~env.supabaseUrl
  /\ warnings = {"gemini", "blogAdmin"}

\* C25: a request authorized through the session (no query key, stored
\* secret matching, time before expiry) leaves the session unchanged, through
\* the required gate and through the optional gate; the expiry is set only
\* by a request whose query key is the configured secret.
C25_SessionUseWritesNothing ==
  [][(resp = Idle /\ resp' # Idle) =>
       /\ (resp'.route \in GatedRoutes /\ Keyless /\ resp'.handler) =>
            session' = session
       /\ (resp'.route = "optional" /\ Keyless /\ resp'.isAdmin) =>
            session' = session
       /\ (session'.adminExpires # NoExpiry
             /\ session'.adminExpires # session.adminExpires) =>
            (adminKey # "" /\ resp'.key = adminKey)]_vars

C25_Witness ==
  /\ resp.route \in GatedRoutes
  /\ resp.handler
  /\ resp.key = NoVal
  /\ grantedAt # NoExpiry
  /\ grantedAt + TickMs = now
  /\ session = [adminKey |-> adminKey, adminExpires |-> grantedAt + SessionTtl]

\* C27: in every reachable state the session holds the secret and the
\* expiry either both or neither, and a stored secret is the configured one;
\* so no session holds another secret while unexpired.
C27_SecretAndExpiryTogether ==
  /\ (session.adminKey = NoVal) <=> (session.adminExpires = NoExpiry)
  /\ session.adminKey # NoVal => session.adminKey = adminKey
  /\ ~(/\ session.adminKey \notin {NoVal, adminKey}
       /\ session.adminExpires # NoExpiry
       /\ now < session.adminExpires)

C27_Witness ==
  /\ resp.route = "optional"
  /\ resp.key = adminKey
  /\ session.adminKey = Secret
  /\ session.adminExpires = now + SessionTtl

\* C28: every call of checkAdminAccess either calls the next handler once
\* and sends no response, or sends one error response, 401 or 500, and does
\* not call the next handler.
C28_ExactlyOneOutcome ==
  resp.route \in GatedRoutes =>
    \/ /\ resp.nextCalls = 1
       /\ resp.gateStatus = 0
       /\ resp.handler
    \/ /\ resp.nextCalls = 0
       /\ resp.gateStatus \in {401, 500}
       /\ resp.status = resp.gateStatus
       /\ ~resp.handler

C28_Witness ==
  /\ resp.route = "admin/delete"
  /\ resp.nextCalls = 0
  /\ resp.gateStatus = 401
  /\ resp.code = "INVALID_ADMIN_KEY"
  /\ sessionEnabled

\* C29 as claimed: the public fetch by slug answers as it would if the
\* unpublished posts were not in the store: the same status and the same
\* body for the store and for the store without its unpublished posts.
C29_UnpublishedInvisible ==
  (resp.route = "slug" /\ supabaseReady /\ ~resp.storeError) =>
    LET post == getBlogPostBySlug({r \in posts : r.published}, TRUE, TRUE, resp.slug)
    IN /\ resp.status = IF post = <<>> THEN 404 ELSE 200
       /\ resp.data = post

\* C30: a request without a session object and with the correct query key
\* is answered 500 AUTH_ERROR by checkAdminAccess, without the handler; by
\* checkAdminOptional it is passed on to the next handler with the
\* authorization flag set.
C30_NoSessionObject ==
  (~sessionEnabled /\ adminKey # "" /\ resp # Idle /\ resp.key = adminKey) =>
    /\ resp.route \in GatedRoutes =>
         /\ resp.status = 500
         /\ resp.code = "AUTH_ERROR"
         /\ resp.nextCalls = 0
         /\ ~resp.handler
    /\ resp.route = "optional" =>
         /\ resp.gateStatus = 0
         /\ resp.nextCalls = 1
         /\ resp.handler
         /\ resp.isAdmin
    /\ session = EmptySession

C30_Witness ==
  /\ ~sessionEnabled
  /\ resp.route \in GatedRoutes
  /\ resp.key = Secret
  /\ resp.code = "AUTH_ERROR"

\* the AI-assist routes
AiRoutes ==
  {"ai/generate", "ai/improve", "ai/title", "ai/excerpt", "ai/tags",
   "ai/translate"}

\* the answered AI-assist request lacks a field its route requires
AiLacksField ==
  CASE resp.route = "ai/generate" -> ~resp.ai.topic
    [] resp.route = "ai/translate" -> ~resp.ai.content \/ ~resp.ai.targetLanguage
    [] OTHER -> ~resp.ai.content

\* C22 as claimed: every AI-assist route, called by an authorized caller
\* with its required fields present, answers 500 with a configuration hint
\* whenever the adapter is unavailable or returns its empty result.
C22_UnavailableIs500WithHint ==
  (/\ resp.route \in AiRoutes
   /\ resp.handler
   /\ ~AiLacksField
   /\ (~geminiReady \/ ~resp.produced)) =>
    /\ resp.status = 500
    /\ resp.hint

\* C23 as claimed: a request that no route matches is answered 404 with a
\* JSON error body, and an error that escapes a route handler is answered
\* 500 with a JSON error body.
C23_StructuredErrors ==
  /\ reply.route = "unmatched" => (reply.status = 404 /\ reply.json)
  /\ reply.route = "escaped" => (reply.status = 500 /\ reply.json)

C26_MissingFieldIs400 ==
  LET lacks ==
        \/ /\ resp.route = "admin/create"
           /\ (resp.body.title = <<>> \/ resp.body.content \in {NoVal, ""})
        \/ /\ resp.route \in AiRoutes
           /\ AiLacksField
      list ==
        CASE resp.route = "admin/create" -> <<"title", "content">>
          [] resp.route = "ai/generate" -> <<"topic">>
          [] resp.route = "ai/translate" -> <<"content", "targetLanguage">>
          [] OTHER -> <<"content">>
  IN (resp.handler /\ lacks) =>
       /\ resp.status = 400
       /\ resp.required = list
       /\ resp.storeCalls = 0
       /\ resp.aiCalls = 0

C26_Witness ==
  /\ resp.route = "ai/translate"
  /\ resp.handler
  /\ resp.ai.content
  /\ ~resp.ai.targetLanguage
  /\ geminiReady
  /\ resp.status = 400
====
